---- MODULE Spec2Model ----
(***************************************************************************)
(* simple_blockchain: a proof-of-work chain of blocks.                     *)
(*                                                                         *)
(* Strings (hashes, previous hashes, payloads) are sequences of            *)
(* one-character strings, so that hex decoding, binary rendering and       *)
(* prefix matching are computed character by character as the code does.   *)
(* SHA-256 is replaced by a small deterministic digest over the same five  *)
(* fields with the same output shape (lowercase hex of HashBytes bytes).   *)
(* u64 values live in 0..U64Max.                                           *)
(***************************************************************************)
EXTENDS Integers, Sequences, FiniteSets, TLC

\* ------------------------------------------------------------------ bounds
\* Largest value of the scaled-down u64 (block ids and nonces).
U64Max == 7
\* Number of bytes of a digest (32 for SHA-256).
HashBytes == 3
\* Longest chain a caller grows by add_block and push.
MaxLen == 2

\* ----------------------------------------------------------------- strings
HexChars == <<"0", "1", "2", "3", "4", "5", "6", "7",
              "8", "9", "a", "b", "c", "d", "e", "f">>

\* Every character the model's strings use; the position is the char code.
Alphabet == HexChars \o <<"g", "n", "s", "i", "o", "t", "h", "!", "z">>

Chars == {Alphabet[i] : i \in 1..Len(Alphabet)}

CharCode == [c \in Chars |-> CHOOSE i \in 1..Len(Alphabet) : Alphabet[i] = c]

IsHexChar(c) == CharCode[c] <= 16

HexVal(c) == CharCode[c] - 1

RECURSIVE Concat(_)
Concat(ss) == IF ss = <<>> THEN <<>> ELSE Head(ss) \o Concat(Tail(ss))

starts_with(s, p) == Len(s) >= Len(p) /\ SubSeq(s, 1, Len(p)) = p

\* helpers.rs: pub const PREFIX: &str = "00";
PREFIX == <<"0", "0">>

\* hex::decode: Err on odd length or on a character that is no hex digit,
\* otherwise one byte per pair of digits.
hex_decode(s) ==
  IF Len(s) % 2 # 0 \/ \E i \in 1..Len(s) : ~IsHexChar(s[i])
  THEN [ok |-> FALSE, bytes |-> <<>>]
  ELSE [ok |-> TRUE,
        bytes |-> [i \in 1..(Len(s) \div 2) |->
                     16 * HexVal(s[2 * i - 1]) + HexVal(s[2 * i])]]

\* hex::encode: two lowercase hex digits per byte.
hex_encode(bytes) ==
  Concat([i \in 1..Len(bytes) |->
            <<HexChars[(bytes[i] \div 16) + 1], HexChars[(bytes[i] % 16) + 1]>>])

RECURSIVE format_b_low_first(_)
\* The binary digits of num written from the lowest to the highest.
format_b_low_first(num) ==
  IF num < 2 THEN <<HexChars[num + 1]>>
  ELSE <<HexChars[(num % 2) + 1]>> \o format_b_low_first(num \div 2)

\* format!("{:b}", num): shortest binary form, "0" for zero.
RECURSIVE format_b(_)
format_b(num) ==
  IF num < 2 THEN <<HexChars[num + 1]>>
  ELSE format_b(num \div 2) \o <<HexChars[(num % 2) + 1]>>

\* format!("{:08b}", num): the binary form padded with zeros to 8 digits.
format_08b(num) ==
  LET digits == format_b(num) IN
  [k \in 1..(8 - Len(digits)) |-> "0"] \o digits

\* binary_string_of padding every byte to 8 binary digits.
binary_string_of_padded(hash) ==
  LET d == hex_decode(hash) IN
  IF ~d.ok THEN [panic |-> TRUE, str |-> <<>>]
  ELSE [panic |-> FALSE,
        str |-> Concat([i \in 1..Len(d.bytes) |-> format_08b(d.bytes[i])])]

\* binary_string_of collecting the bytes from the last to the first.
binary_string_of_backwards(hash) ==
  LET d == hex_decode(hash) IN
  IF ~d.ok THEN [panic |-> TRUE, str |-> <<>>]
  ELSE [panic |-> FALSE,
        str |-> Concat([i \in 1..Len(d.bytes) |->
                          format_b(d.bytes[Len(d.bytes) + 1 - i])])]

\* helpers.rs binary_string_of: hex::decode(hash).unwrap() panics on Err.
binary_string_of(hash) ==
  LET d == hex_decode(hash) IN
  IF ~d.ok THEN [panic |-> TRUE, str |-> <<>>]
  ELSE [panic |-> FALSE,
        str |-> Concat([i \in 1..Len(d.bytes) |-> format_b(d.bytes[i])])]

\* ------------------------------------------------------------------ digest
RECURSIVE StrCode(_)
\* A position-sensitive code of a string, standing for its JSON serialisation.
StrCode(s) ==
  IF s = <<>> THEN 0
  ELSE (3 * StrCode(SubSeq(s, 1, Len(s) - 1)) + CharCode[s[Len(s)]]) % 16

\* Byte k of the digest whose mixed state is m.
DigestByte(m, k) ==
  IF k = 1 THEN <<0, 0, 15, 163>>[(m % 4) + 1]
  ELSE IF k = 2 THEN <<0, 255, 255, 1>>[(m % 4) + 1]
  ELSE (37 * m + 11 * k) % 256

\* The hex form of each of the digest's values.
DigestHex == [m \in 0..15 |-> hex_encode([k \in 1..HashBytes |-> DigestByte(m, k)])]

\* helpers.rs calculate_hash: serialise the five fields, digest, hex-encode.
calculate_hash(id, timestamp, previous_hash, data, nonce) ==
  DigestHex[(3 * id + 5 * timestamp + 7 * StrCode(previous_hash)
             + 11 * StrCode(data) + nonce) % 16]

\* ------------------------------------------------------------------- state
VARIABLES
  blocks,           \* the block sequence of the local Blockchain
  last,             \* the last call made on it, with its result
  overflow_checks,  \* the build: TRUE panics on integer overflow (cargo's
                    \*   dev profile), FALSE wraps (the release profile)
  block,            \* validator inputs: the block under test,
  previous_block,   \*   the block it is checked against,
  verdict,          \*   what is_block_valid returned for them,
  tampered,         \*   and the field changed since an accepted verdict
  binary_string     \* the String binary_string_of last returned

vars == <<blocks, last, overflow_checks, block, previous_block, verdict, tampered, binary_string>>

\* Utc::now().timestamp() returns one of these.
Timestamps == {1, 2}

GENESIS == <<"g", "e", "n", "e", "s", "i", "s">>
GENESIS_DATA == <<"g", "e", "n", "e", "s", "i", "s", "!">>
FOO == <<"f", "o", "o">>
NOT_A_HASH == <<"n", "o", "t", "a", "h", "a", "s", "h">>
NOT_PREVIOUS == <<"n", "o", "t", "t", "h", "i", "s">>

\* a + 1 on u64.  It overflows at the largest value: a build with overflow
\* checks (checks = TRUE, cargo's dev profile) panics, one without wraps to 0.
add_one(checks, a) ==
  IF a < U64Max THEN [panic |-> FALSE, val |-> a + 1]
  ELSE [panic |-> checks, val |-> 0]

\* ------------------------------------------------------------------ mining
\* mine_hash returning the first digest without testing the prefix.
mine_loop_untested(checks, id, timestamp, previous_hash, data, nonce) ==
  [status |-> "ok", nonce |-> nonce,
   hash |-> calculate_hash(id, timestamp, previous_hash, data, nonce)]

RECURSIVE mine_loop_one_zero(_, _, _, _, _, _)
\* mine_hash stopping at a digest whose binary string starts with one zero.
mine_loop_one_zero(checks, id, timestamp, previous_hash, data, nonce) ==
  LET hash == calculate_hash(id, timestamp, previous_hash, data, nonce)
      binary_hash == binary_string_of(hash)
      next == add_one(checks, nonce)
  IN IF binary_hash.panic
     THEN [status |-> "panic", nonce |-> nonce, hash |-> hash]
     ELSE IF starts_with(binary_hash.str, <<"0">>)
     THEN [status |-> "ok", nonce |-> nonce, hash |-> hash]
     ELSE IF next.panic
     THEN [status |-> "panic", nonce |-> nonce, hash |-> hash]
     ELSE IF next.val = 0
     THEN [status |-> "diverge", nonce |-> nonce, hash |-> hash]
     ELSE mine_loop_one_zero(checks, id, timestamp, previous_hash, data, next.val)

RECURSIVE mine_loop(_, _, _, _, _, _)
\* helpers.rs mine_hash, the loop from the given nonce on.  When nonce += 1
\* wraps, the loop repeats the digests it has already rejected, for ever.
mine_loop(checks, id, timestamp, previous_hash, data, nonce) ==
  LET hash == calculate_hash(id, timestamp, previous_hash, data, nonce)
      binary_hash == binary_string_of(hash)
      next == add_one(checks, nonce)
  IN IF binary_hash.panic
     THEN [status |-> "panic", nonce |-> nonce, hash |-> hash]
     ELSE IF starts_with(binary_hash.str, PREFIX)
     THEN [status |-> "ok", nonce |-> nonce, hash |-> hash]
     ELSE IF next.panic
     THEN [status |-> "panic", nonce |-> nonce, hash |-> hash]
     ELSE IF next.val = 0
     THEN [status |-> "diverge", nonce |-> nonce, hash |-> hash]
     ELSE mine_loop(checks, id, timestamp, previous_hash, data, next.val)

\* mine_hash counting up from nonce 1.
mine_hash_from_one(checks, id, timestamp, previous_hash, data) ==
  mine_loop(checks, id, timestamp, previous_hash, data, 1)

\* helpers.rs mine_hash: the loop started at nonce 0.
mine_hash(checks, id, timestamp, previous_hash, data) ==
  mine_loop(checks, id, timestamp, previous_hash, data, 0)

\* block.rs Block::new, with the timestamp Utc::now() returned.
Block_new(checks, id, previous_hash, data, timestamp) ==
  LET mined == mine_hash(checks, id, timestamp, previous_hash, data) IN
  [status |-> mined.status,
   block |-> [id |-> id, hash |-> mined.hash, previous_hash |-> previous_hash,
              timestamp |-> timestamp, data |-> data, nonce |-> mined.nonce]]

\* --------------------------------------------------------------- validator
\* is_block_valid without the comparison of the hash with the digest.
is_block_valid_no_digest(checks, b, prev) ==
  LET binary_hash == binary_string_of(b.hash)
      next_id == add_one(checks, prev.id)
  IN IF b.previous_hash # prev.hash THEN "false"
     ELSE IF binary_hash.panic THEN "panic"
     ELSE IF ~starts_with(binary_hash.str, PREFIX) THEN "false"
     ELSE IF next_id.panic THEN "panic"
     ELSE IF b.id # next_id.val THEN "false"
     ELSE "true"

\* is_block_valid testing the difficulty prefix before the digest.
is_block_valid_prefix_first(checks, b, prev) ==
  LET hash == calculate_hash(b.id, b.timestamp, b.previous_hash, b.data, b.nonce)
      binary_hash == binary_string_of(b.hash)
      next_id == add_one(checks, prev.id)
  IN IF binary_hash.panic THEN "panic"
     ELSE IF ~starts_with(binary_hash.str, PREFIX) THEN "false"
     ELSE IF b.hash # hash THEN "false"
     ELSE IF b.previous_hash # prev.hash THEN "false"
     ELSE IF next_id.panic THEN "panic"
     ELSE IF b.id # next_id.val THEN "false"
     ELSE "true"

\* is_block_valid without the comparison of the ids.
is_block_valid_no_id(checks, b, prev) ==
  LET hash == calculate_hash(b.id, b.timestamp, b.previous_hash, b.data, b.nonce)
      binary_hash == binary_string_of(b.hash)
  IN IF b.hash # hash THEN "false"
     ELSE IF b.previous_hash # prev.hash THEN "false"
     ELSE IF binary_hash.panic THEN "panic"
     ELSE IF ~starts_with(binary_hash.str, PREFIX) THEN "false"
     ELSE "true"

\* is_block_valid without the comparison of previous_hash with the hash of
\* the previous block.
is_block_valid_no_link(checks, b, prev) ==
  LET hash == calculate_hash(b.id, b.timestamp, b.previous_hash, b.data, b.nonce)
      binary_hash == binary_string_of(b.hash)
      next_id == add_one(checks, prev.id)
  IN IF b.hash # hash THEN "false"
     ELSE IF binary_hash.panic THEN "panic"
     ELSE IF ~starts_with(binary_hash.str, PREFIX) THEN "false"
     ELSE IF next_id.panic THEN "panic"
     ELSE IF b.id # next_id.val THEN "false"
     ELSE "true"

\* blockchain.rs is_block_valid: "true", "false", or "panic" when a step of
\* it panics (the unwrap in binary_string_of, previous_block.id + 1).
is_block_valid(checks, b, prev) ==
  LET hash == calculate_hash(b.id, b.timestamp, b.previous_hash, b.data, b.nonce)
      binary_hash == binary_string_of(b.hash)
      next_id == add_one(checks, prev.id)
  IN IF b.hash # hash THEN "false"
     ELSE IF b.previous_hash # prev.hash THEN "false"
     ELSE IF binary_hash.panic THEN "panic"
     ELSE IF ~starts_with(binary_hash.str, PREFIX) THEN "false"
     ELSE IF next_id.panic THEN "panic"
     ELSE IF b.id # next_id.val THEN "false"
     ELSE "true"

\* is_chain_valid checking every block against the first block of the chain.
all_valid_against_first(checks, bs, i) ==
  IF \A j \in i..Len(bs) : is_block_valid(checks, bs[j], bs[1]) = "true"
  THEN "true" ELSE "false"

RECURSIVE all_valid(_, _, _)
\* The iterator of is_chain_valid from position i on: all() stops at the
\* first block that is not valid.
all_valid(checks, bs, i) ==
  IF i > Len(bs) THEN "true"
  ELSE LET v == is_block_valid(checks, bs[i], bs[i - 1]) IN
       IF v = "true" THEN all_valid(checks, bs, i + 1) ELSE v

\* is_chain_valid also requiring that the hash of the first block is the
\* digest of its fields.
is_chain_valid_first_checked(checks, bs) ==
  IF Len(bs) <= 1 THEN "false"
  ELSE IF bs[1].hash # calculate_hash(bs[1].id, bs[1].timestamp,
                                      bs[1].previous_hash, bs[1].data, bs[1].nonce)
  THEN "false"
  ELSE all_valid(checks, bs, 2)

\* is_chain_valid turning away the empty chain only.
is_chain_valid_nonempty(checks, bs) ==
  IF Len(bs) = 0 THEN "false" ELSE all_valid(checks, bs, 2)

\* blockchain.rs is_chain_valid.
is_chain_valid(checks, bs) ==
  IF Len(bs) <= 1 THEN "false" ELSE all_valid(checks, bs, 2)

\* ------------------------------------------------------------------ chains
NoBlock == [id |-> 0, hash |-> <<>>, previous_hash |-> <<>>,
            timestamp |-> 0, data |-> <<>>, nonce |-> 0]

\* The record of a call on the local chain: the operation, its block
\* argument, the remote chain it was given, the local blocks before it, and
\* what it returned ("panic" / "diverge" when it did not return).
Call(op, b, remote, before, ret) ==
  [op |-> op, block |-> b, remote |-> remote, before |-> before, ret |-> ret]

\* A panic or an endless loop ends the run.
Halted == last.ret \in {"panic", "diverge"}

\* The id the block after the tail carries, and the hash it links to.
NextId(bs) == IF bs = <<>> THEN 0 ELSE add_one(FALSE, bs[Len(bs)].id).val

TailHash(bs) == IF bs = <<>> THEN GENESIS ELSE bs[Len(bs)].hash

\* The blocks a caller hands to add_block on a chain whose next id is nid and
\* whose tail hash is ph: mined for this tail, mined for another id or
\* another predecessor, and struct literals with one field off.
AddInputs(nid, ph) ==
  LET g == Block_new(FALSE, nid, ph, FOO, 1).block IN
  {Block_new(FALSE, nid, ph, FOO, t).block : t \in Timestamps}
  \cup {Block_new(FALSE, nid, NOT_PREVIOUS, FOO, 1).block,
        Block_new(FALSE, add_one(FALSE, nid).val, ph, FOO, 1).block,
        Block_new(FALSE, U64Max, ph, FOO, 1).block,
        [g EXCEPT !.hash = NOT_A_HASH],
        [g EXCEPT !.hash = <<"0", "0", "0", "0">>],
        [g EXCEPT !.nonce = add_one(FALSE, g.nonce).val],
        [g EXCEPT !.data = GENESIS_DATA],
        [g EXCEPT !.id = add_one(FALSE, nid).val],
        [g EXCEPT !.previous_hash = NOT_PREVIOUS]}

\* The blocks written straight into the public blocks field: the doc test's
\* genesis-like block, and a struct literal whose hash is no hash.
PushInputs(nid, ph) ==
  {Block_new(FALSE, 0, GENESIS, GENESIS_DATA, 1).block,
   [Block_new(FALSE, nid, ph, FOO, 1).block EXCEPT !.hash = NOT_A_HASH]}

\* genesis without the test for a chain that already holds blocks.
genesis_of_unguarded(checks, bs, timestamp) ==
  LET made == Block_new(checks, 0, GENESIS, GENESIS_DATA, timestamp) IN
  IF made.status # "ok" THEN [ret |-> made.status, blocks |-> bs]
  ELSE [ret |-> "Ok", blocks |-> Append(bs, made.block)]

\* blockchain.rs genesis: what it returns and the blocks it leaves.
genesis_of(checks, bs, timestamp) ==
  IF Len(bs) > 0 THEN [ret |-> "InvalidChainLength", blocks |-> bs]
  ELSE LET made == Block_new(checks, 0, GENESIS, GENESIS_DATA, timestamp) IN
       IF made.status # "ok" THEN [ret |-> made.status, blocks |-> bs]
       ELSE [ret |-> "Ok", blocks |-> Append(bs, made.block)]

\* add_block pushing the block whatever is_block_valid says.
add_block_of_unchecked(checks, bs, b) ==
  IF bs = <<>> THEN [ret |-> "InvalidChainLength", blocks |-> bs]
  ELSE [ret |-> "Ok", blocks |-> Append(bs, b)]

\* add_block taking the block as the first one when there is no tail.
add_block_of_seeding(checks, bs, b) ==
  IF bs = <<>> THEN [ret |-> "Ok", blocks |-> <<b>>]
  ELSE LET v == is_block_valid(checks, b, bs[Len(bs)]) IN
       IF v = "true" THEN [ret |-> "Ok", blocks |-> Append(bs, b)]
       ELSE IF v = "false" THEN [ret |-> "InvalidBlock", blocks |-> bs]
       ELSE [ret |-> "panic", blocks |-> bs]

\* blockchain.rs add_block: what it returns and the blocks it leaves.
add_block_of(checks, bs, b) ==
  IF bs = <<>> THEN [ret |-> "InvalidChainLength", blocks |-> bs]
  ELSE LET v == is_block_valid(checks, b, bs[Len(bs)]) IN
       IF v = "true" THEN [ret |-> "Ok", blocks |-> Append(bs, b)]
       ELSE IF v = "false" THEN [ret |-> "InvalidBlock", blocks |-> bs]
       ELSE [ret |-> "panic", blocks |-> bs]

\* choose_chain replacing an invalid local chain by any remote chain.
choose_chain_of_any_remote(checks, bs, remote) ==
  LET is_local_valid == is_chain_valid(checks, bs)
      is_remote_valid == is_chain_valid(checks, remote)
  IN IF is_local_valid = "panic" \/ is_remote_valid = "panic"
     THEN [ret |-> "panic", blocks |-> bs]
     ELSE LET first == IF /\ is_local_valid = "true"
                          /\ is_remote_valid = "true"
                          /\ Len(remote) > Len(bs)
                       THEN remote ELSE bs
              second == IF is_local_valid # "true" THEN remote ELSE first
          IN [ret |-> "unit", blocks |-> second]

\* choose_chain without the replacement of a valid local chain by a longer one.
choose_chain_of_repair_only(checks, bs, remote) ==
  LET is_local_valid == is_chain_valid(checks, bs)
      is_remote_valid == is_chain_valid(checks, remote)
  IN IF is_local_valid = "panic" \/ is_remote_valid = "panic"
     THEN [ret |-> "panic", blocks |-> bs]
     ELSE LET first == bs
              second == IF is_remote_valid = "true" /\ is_local_valid # "true"
                        THEN remote ELSE first
          IN [ret |-> "unit", blocks |-> second]

\* choose_chain replacing an invalid local chain by a longer valid one only.
choose_chain_of_longer_only(checks, bs, remote) ==
  LET is_local_valid == is_chain_valid(checks, bs)
      is_remote_valid == is_chain_valid(checks, remote)
  IN IF is_local_valid = "panic" \/ is_remote_valid = "panic"
     THEN [ret |-> "panic", blocks |-> bs]
     ELSE LET first == IF /\ is_local_valid = "true"
                          /\ is_remote_valid = "true"
                          /\ Len(remote) > Len(bs)
                       THEN remote ELSE bs
              second == IF /\ is_remote_valid = "true" /\ is_local_valid # "true"
                           /\ Len(remote) > Len(bs)
                        THEN remote ELSE first
          IN [ret |-> "unit", blocks |-> second]

\* choose_chain replacing a valid local chain by a valid remote one of the
\* same length too.
choose_chain_of_tie_to_remote(checks, bs, remote) ==
  LET is_local_valid == is_chain_valid(checks, bs)
      is_remote_valid == is_chain_valid(checks, remote)
  IN IF is_local_valid = "panic" \/ is_remote_valid = "panic"
     THEN [ret |-> "panic", blocks |-> bs]
     ELSE LET first == IF /\ is_local_valid = "true"
                          /\ is_remote_valid = "true"
                          /\ Len(remote) >= Len(bs)
                       THEN remote ELSE bs
              second == IF is_remote_valid = "true" /\ is_local_valid # "true"
                        THEN remote ELSE first
          IN [ret |-> "unit", blocks |-> second]

\* choose_chain appending the blocks the longer remote chain has more to the
\* local ones.
choose_chain_of_merging(checks, bs, remote) ==
  LET is_local_valid == is_chain_valid(checks, bs)
      is_remote_valid == is_chain_valid(checks, remote)
  IN IF is_local_valid = "panic" \/ is_remote_valid = "panic"
     THEN [ret |-> "panic", blocks |-> bs]
     ELSE LET first == IF /\ is_local_valid = "true"
                          /\ is_remote_valid = "true"
                          /\ Len(remote) > Len(bs)
                       THEN bs \o SubSeq(remote, Len(bs) + 1, Len(remote)) ELSE bs
              second == IF is_remote_valid = "true" /\ is_local_valid # "true"
                        THEN remote ELSE first
          IN [ret |-> "unit", blocks |-> second]

\* blockchain.rs choose_chain: both validity flags are computed first, then
\* the two ifs run one after the other.
choose_chain_of(checks, bs, remote) ==
  LET is_local_valid == is_chain_valid(checks, bs)
      is_remote_valid == is_chain_valid(checks, remote)
  IN IF is_local_valid = "panic" \/ is_remote_valid = "panic"
     THEN [ret |-> "panic", blocks |-> bs]
     ELSE LET first == IF /\ is_local_valid = "true"
                          /\ is_remote_valid = "true"
                          /\ Len(remote) > Len(bs)
                       THEN remote ELSE bs
              second == IF is_remote_valid = "true" /\ is_local_valid # "true"
                        THEN remote ELSE first
          IN [ret |-> "unit", blocks |-> second]

\* ----------------------------------------------------------- remote chains
\* The chains one more call leads to from the chain bs of a peer.  A peer's
\* chain starts with genesis() or with a block of its own choosing, grows by
\* add_block, and may end in a tampered block.
PeerSteps(bs) ==
  {genesis_of(FALSE, bs, t).blocks : t \in Timestamps}
  \cup {add_block_of(FALSE, bs, Block_new(FALSE, NextId(bs), TailHash(bs), FOO, 1).block).blocks}
  \cup (IF bs = <<>>
        THEN {<<Block_new(FALSE, U64Max - 1, GENESIS, FOO, 1).block>>}
        ELSE {})

RECURSIVE PeerChains(_)
PeerChains(n) ==
  IF n = 0 THEN {<<>>}
  ELSE LET S == PeerChains(n - 1) IN S \cup UNION {PeerSteps(bs) : bs \in S}

\* The remote chains choose_chain is given: up to one block longer than the
\* local chain grows, each also with its tail replaced by a tampered block.
RemoteChains ==
  LET S == PeerChains(MaxLen + 1) IN
  S \cup {[bs EXCEPT ![Len(bs)].hash = NOT_A_HASH] : bs \in S \ {<<>>}}

\* ----------------------------------------------------------------- actions
ValidatorIdle ==
  /\ block = NoBlock
  /\ previous_block = NoBlock
  /\ verdict = "none"
  /\ tampered = "none"
  /\ binary_string = <<>>

Init ==
  /\ blocks = <<>>
  /\ last = Call("new", NoBlock, <<>>, <<>>, "unit")
  /\ overflow_checks \in BOOLEAN
  /\ ValidatorIdle

genesis ==
  \E t \in Timestamps :
    LET r == genesis_of(overflow_checks, blocks, t) IN
    /\ ~Halted
    /\ blocks' = r.blocks
    /\ last' = Call("genesis", NoBlock, <<>>, blocks, r.ret)
    /\ UNCHANGED <<overflow_checks, block, previous_block, verdict, tampered, binary_string>>

add_block ==
  \E b \in AddInputs(NextId(blocks), TailHash(blocks)) :
    LET r == add_block_of(overflow_checks, blocks, b) IN
    /\ ~Halted
    /\ r.ret = "Ok" => Len(blocks) < MaxLen
    /\ blocks' = r.blocks
    /\ last' = Call("add_block", b, <<>>, blocks, r.ret)
    /\ UNCHANGED <<overflow_checks, block, previous_block, verdict, tampered, binary_string>>

choose_chain ==
  \E remote \in RemoteChains :
    LET r == choose_chain_of(overflow_checks, blocks, remote) IN
    /\ ~Halted
    /\ blocks' = r.blocks
    /\ last' = Call("choose_chain", NoBlock, remote, blocks, r.ret)
    /\ UNCHANGED <<overflow_checks, block, previous_block, verdict, tampered, binary_string>>

\* Vec::push on the public field blocks, as the tests and doc tests do.
push ==
  \E b \in PushInputs(NextId(blocks), TailHash(blocks)) :
    /\ ~Halted
    /\ Len(blocks) < MaxLen
    /\ blocks' = Append(blocks, b)
    /\ last' = Call("push", b, <<>>, blocks, "unit")
    /\ UNCHANGED <<overflow_checks, block, previous_block, verdict, tampered, binary_string>>

Next == genesis \/ add_block \/ push \/ choose_chain

Spec == Init /\ [][Next]_vars

\* --------------------------------------------------- the validator alone
\* is_block_valid reads every field of the block and the id and hash of the
\* previous block.  Its inputs are drawn from these sets: ids at both ends
\* of u64, hashes that are a digest, another digest, hex that is no digest,
\* and text that is no hex.
Ids == {0, 1, 2, U64Max - 1, U64Max}

PrevHashes == {DigestHex[0], DigestHex[4], NOT_A_HASH}

PrevInputs ==
  {[id |-> i, hash |-> h, previous_hash |-> GENESIS, timestamp |-> 1,
    data |-> FOO, nonce |-> 0] : i \in Ids, h \in PrevHashes}

HashInputs(id, timestamp, previous_hash, data, nonce) ==
  {calculate_hash(id, timestamp, previous_hash, data, nonce),
   DigestHex[0], <<"0", "0", "0", "0">>, NOT_A_HASH}

InitValid ==
  /\ blocks = <<>>
  /\ last = Call("new", NoBlock, <<>>, <<>>, "unit")
  /\ overflow_checks \in BOOLEAN
  /\ previous_block \in PrevInputs
  /\ \E i \in Ids, p \in {previous_block.hash, NOT_PREVIOUS}, t \in Timestamps,
        d \in {FOO, GENESIS_DATA}, n \in {0, 1, 2, 3, U64Max} :
       \E h \in HashInputs(i, t, p, d, n) :
         block = [id |-> i, hash |-> h, previous_hash |-> p, timestamp |-> t,
                  data |-> d, nonce |-> n]
  /\ verdict = "none"
  /\ tampered = "none"
  /\ binary_string = <<>>

\* One call of is_block_valid on the inputs.
check_block ==
  /\ verdict = "none"
  /\ verdict' = is_block_valid(overflow_checks, block, previous_block)
  /\ UNCHANGED <<blocks, last, overflow_checks, block, previous_block, tampered, binary_string>>

\* One field of an accepted block is overwritten (the fields are public) and
\* the block is checked again.
tamper ==
  /\ verdict = "true"
  /\ tampered = "none"
  /\ \E f \in {"hash", "previous_hash", "id"} :
       \E v \in (IF f = "id" THEN Ids
                 ELSE PrevHashes \cup {GENESIS, NOT_PREVIOUS, <<"0", "0", "0", "0">>}) :
         /\ v # block[f]
         /\ block' = [block EXCEPT ![f] = v]
         /\ tampered' = f
         /\ verdict' = is_block_valid(overflow_checks, block', previous_block)
  /\ UNCHANGED <<blocks, last, overflow_checks, previous_block, binary_string>>

NextValid == check_block \/ tamper

SpecValid == InitValid /\ [][NextValid]_vars

\* ------------------------------------------------- is_chain_valid alone
RECURSIVE Mined(_, _)
\* The chain of n blocks mined one on the other, ids counting up from first.
Mined(first, n) ==
  IF n = 0 THEN <<>>
  ELSE IF n = 1 THEN <<Block_new(FALSE, first, GENESIS, GENESIS_DATA, 1).block>>
  ELSE LET bs == Mined(first, n - 1) IN
       Append(bs, Block_new(FALSE, NextId(bs), TailHash(bs), FOO, 1).block)

\* The blocks the sequences given to is_chain_valid are made of: a mined
\* chain from id 0, one that runs over the largest id, a block that skips an
\* id, and one whose hash is no hash.
PoolBlocks ==
  LET low == Mined(0, MaxLen + 1)
      high == Mined(U64Max - 1, 3)
  IN {low[i] : i \in 1..Len(low)} \cup {high[i] : i \in 1..Len(high)}
     \cup {Block_new(FALSE, 2, low[1].hash, FOO, 1).block,
           [low[2] EXCEPT !.hash = NOT_A_HASH]}

\* Every sequence of up to n pool blocks, in any order.
RECURSIVE ChainInputs(_)
ChainInputs(n) ==
  IF n = 0 THEN {<<>>}
  ELSE LET S == ChainInputs(n - 1) IN
       S \cup {Append(bs, b) : bs \in S, b \in PoolBlocks}

InitChain ==
  /\ blocks \in ChainInputs(MaxLen + 1)
  /\ last = Call("new", NoBlock, <<>>, <<>>, "unit")
  /\ overflow_checks \in BOOLEAN
  /\ ValidatorIdle

\* A call of the public is_chain_valid on the local chain.
call_is_chain_valid ==
  /\ ~Halted
  /\ last' = Call("is_chain_valid", NoBlock, <<>>, blocks,
                  is_chain_valid(overflow_checks, blocks))
  /\ UNCHANGED <<blocks, overflow_checks, block, previous_block, verdict, tampered, binary_string>>

NextChain == call_is_chain_valid

SpecChain == InitChain /\ [][NextChain]_vars

\* ------------------------------------------- chains built by the API only
\* The chains one more call of genesis or add_block leads to from bs, with
\* every block a caller hands to add_block.
ApiSteps(bs) ==
  {genesis_of(FALSE, bs, t).blocks : t \in Timestamps}
  \cup {add_block_of(FALSE, bs, b).blocks : b \in AddInputs(NextId(bs), TailHash(bs))}

RECURSIVE ApiChains(_)
ApiChains(n) ==
  IF n = 0 THEN {<<>>}
  ELSE LET S == ApiChains(n - 1) IN S \cup UNION {ApiSteps(bs) : bs \in S}

\* choose_chain with a remote chain that was itself built by new, genesis
\* and add_block.
choose_chain_api ==
  \E remote \in ApiChains(MaxLen + 1) :
    LET r == choose_chain_of(overflow_checks, blocks, remote) IN
    /\ ~Halted
    /\ blocks' = r.blocks
    /\ last' = Call("choose_chain", NoBlock, remote, blocks, r.ret)
    /\ UNCHANGED <<overflow_checks, block, previous_block, verdict, tampered, binary_string>>

NextApi == genesis \/ add_block \/ choose_chain_api \/ call_is_chain_valid

SpecApi == Init /\ [][NextApi]_vars

\* ------------------------------------------------------ choose_chain alone
\* choose_chain on every pair of a local and a remote chain: the local chain
\* too is any chain a peer can hold, a tampered or id-overflowing one included.
InitChoose ==
  /\ blocks \in RemoteChains
  /\ last = Call("new", NoBlock, <<>>, <<>>, "unit")
  /\ overflow_checks \in BOOLEAN
  /\ ValidatorIdle

NextChoose == choose_chain

SpecChoose == InitChoose /\ [][NextChoose]_vars

\* ------------------------------------------- Block::new, then add_block
\* A caller makes a block with Block::new for a chain that holds blocks
\* already, and hands it to add_block.  The chain is any chain a peer can
\* hold; the id is the one after the tail's, or another; the previous hash
\* is the tail's, or another; the data is any text, the empty one included.
InitNew ==
  /\ blocks \in {bs \in RemoteChains : bs # <<>>}
  /\ last = Call("new", NoBlock, <<>>, <<>>, "unit")
  /\ overflow_checks \in BOOLEAN
  /\ ValidatorIdle

new_block ==
  \E id \in {NextId(blocks), 0, U64Max},
     previous_hash \in {TailHash(blocks), NOT_PREVIOUS, GENESIS},
     data \in {FOO, GENESIS_DATA, <<>>},
     t \in Timestamps :
    LET made == Block_new(overflow_checks, id, previous_hash, data, t) IN
    /\ last.op = "new"
    /\ block' = made.block
    /\ last' = Call("Block_new", made.block, <<>>, blocks, made.status)
    /\ UNCHANGED <<blocks, overflow_checks, previous_block, verdict, tampered, binary_string>>

add_new_block ==
  LET r == add_block_of(overflow_checks, blocks, block) IN
  /\ last.op = "Block_new"
  /\ last.ret = "ok"
  /\ blocks' = r.blocks
  /\ last' = Call("add_block", block, <<>>, blocks, r.ret)
  /\ UNCHANGED <<overflow_checks, block, previous_block, verdict, tampered, binary_string>>

NextNew == new_block \/ add_new_block

SpecNew == InitNew /\ [][NextNew]_vars

\* -------------------------------------------------- binary_string_of alone
\* The bytes the hashes given to binary_string_of are made of: 0x00, values
\* with leading zero bits (0x03, 0x0f, 0x3f), 0x80 and 0xff.
ByteInputs == {0, 3, 15, 63, 128, 255}

\* The strings given to binary_string_of: the hex form of every sequence of
\* up to HashBytes of these bytes, and strings hex::decode rejects (odd
\* length, a character that is no hex digit).
HashStrings ==
  {hex_encode(bytes) : bytes \in UNION {[1..n -> ByteInputs] : n \in 0..HashBytes}}
  \cup {NOT_A_HASH, <<"0">>, <<"f", "f", "0">>}

InitBinary ==
  /\ blocks = <<>>
  /\ last = Call("new", NoBlock, <<>>, <<>>, "unit")
  /\ overflow_checks \in BOOLEAN
  /\ \E hash \in HashStrings : block = [NoBlock EXCEPT !.hash = hash]
  /\ previous_block = NoBlock
  /\ verdict = "none"
  /\ tampered = "none"
  /\ binary_string = <<>>

\* One call of binary_string_of on the hash.
call_binary_string_of ==
  LET r == binary_string_of(block.hash) IN
  /\ last.op = "new"
  /\ binary_string' = r.str
  /\ last' = Call("binary_string_of", block, <<>>, <<>>,
                  IF r.panic THEN "panic" ELSE "ok")
  /\ UNCHANGED <<blocks, overflow_checks, block, previous_block, verdict, tampered>>

NextBinary == call_binary_string_of

SpecBinary == InitBinary /\ [][NextBinary]_vars

\* ------------------------------------------- mine_hash, pass by pass
\* The loop of mine_hash one pass at a time.  block holds the arguments
\* (id, timestamp, previous_hash, data), the local nonce, and the hash of the
\* pass before; last.ret is "loop" until the function returns ("ok") or
\* panics.
InitMine ==
  /\ blocks = <<>>
  /\ last = Call("mine_hash", NoBlock, <<>>, <<>>, "loop")
  /\ overflow_checks \in BOOLEAN
  /\ \E id \in Ids, t \in Timestamps,
        previous_hash \in {GENESIS, NOT_PREVIOUS, DigestHex[0]},
        data \in {FOO, GENESIS_DATA, <<>>} :
       block = [id |-> id, hash |-> <<>>, previous_hash |-> previous_hash,
                timestamp |-> t, data |-> data, nonce |-> 0]
  /\ previous_block = NoBlock
  /\ verdict = "none"
  /\ tampered = "none"
  /\ binary_string = <<>>

\* A pass of the loop that goes on with the nonce after the next one.
mine_pass_by_two ==
  /\ last.op = "mine_hash"
  /\ last.ret = "loop"
  /\ \E hash \in {calculate_hash(block.id, block.timestamp, block.previous_hash,
                                  block.data, block.nonce)} :
       \E binary_hash \in {binary_string_of(hash)} :
         LET next == add_one(overflow_checks, add_one(overflow_checks, block.nonce).val)
             tried == [block EXCEPT !.hash = hash]
         IN /\ binary_string' = binary_hash.str
            /\ IF binary_hash.panic
               THEN /\ block' = tried
                    /\ last' = Call("mine_hash", NoBlock, <<>>, <<>>, "panic")
               ELSE IF starts_with(binary_hash.str, PREFIX)
               THEN /\ block' = tried
                    /\ last' = Call("mine_hash", tried, <<>>, <<>>, "ok")
               ELSE IF next.panic
               THEN /\ block' = tried
                    /\ last' = Call("mine_hash", NoBlock, <<>>, <<>>, "panic")
               ELSE /\ block' = [tried EXCEPT !.nonce = next.val]
                    /\ UNCHANGED last
  /\ UNCHANGED <<blocks, overflow_checks, previous_block, verdict, tampered>>

\* One pass of the loop of mine_hash: the digest for the nonce, its binary
\* string, the return when it starts with the prefix, nonce += 1 otherwise.
\* (hash and binary_hash are bound by \E over one value, as the let of the
\* loop binds them: each is computed once in a pass.)
mine_pass ==
  /\ last.op = "mine_hash"
  /\ last.ret = "loop"
  /\ \E hash \in {calculate_hash(block.id, block.timestamp, block.previous_hash,
                                  block.data, block.nonce)} :
       \E binary_hash \in {binary_string_of(hash)} :
         LET next == add_one(overflow_checks, block.nonce)
             tried == [block EXCEPT !.hash = hash]
         IN /\ binary_string' = binary_hash.str
            /\ IF binary_hash.panic
               THEN /\ block' = tried
                    /\ last' = Call("mine_hash", NoBlock, <<>>, <<>>, "panic")
               ELSE IF starts_with(binary_hash.str, PREFIX)
               THEN /\ block' = tried
                    /\ last' = Call("mine_hash", tried, <<>>, <<>>, "ok")
               ELSE IF next.panic
               THEN /\ block' = tried
                    /\ last' = Call("mine_hash", NoBlock, <<>>, <<>>, "panic")
               ELSE /\ block' = [tried EXCEPT !.nonce = next.val]
                    /\ UNCHANGED last
  /\ UNCHANGED <<blocks, overflow_checks, previous_block, verdict, tampered>>

NextMine == mine_pass

\* The loop is sequential code: while it has not returned, its next pass runs.
SpecMine == InitMine /\ [][NextMine]_vars /\ WF_vars(mine_pass)

\* ================================================================= claims
\* The four conditions of the validator, each stated on its own.
DigestOk(b) ==
  b.hash = calculate_hash(b.id, b.timestamp, b.previous_hash, b.data, b.nonce)

LinkOk(b, prev) == b.previous_hash = prev.hash

PrefixOk(b) ==
  /\ ~binary_string_of(b.hash).panic
  /\ starts_with(binary_string_of(b.hash).str, PREFIX)

IdOk(b, prev) == b.id = prev.id + 1

FourConditions(b, prev) ==
  DigestOk(b) /\ LinkOk(b, prev) /\ PrefixOk(b) /\ IdOk(b, prev)

AddedTo == last.op = "add_block" /\ last.before # <<>>

TailBefore == last.before[Len(last.before)]

\* What is_chain_valid says of the local chain as it was before the last
\* call, and of the remote chain the call was given.
LocalValid == is_chain_valid(overflow_checks, last.before)

RemoteValid == is_chain_valid(overflow_checks, last.remote)

\* C1: add_block on a non-empty chain returns Ok exactly when is_block_valid
\* accepts the block against the tail, and then the chain is the old one with
\* the block appended: one longer, earlier blocks unchanged, new tail = block.
C1_AddBlockAppends ==
  AddedTo =>
    /\ last.ret = "Ok"
         <=> is_block_valid(overflow_checks, last.block, TailBefore) = "true"
    /\ last.ret = "Ok" =>
         /\ Len(blocks) = Len(last.before) + 1
         /\ SubSeq(blocks, 1, Len(last.before)) = last.before
         /\ blocks[Len(blocks)] = last.block

C1_Witness ==
  /\ AddedTo
  /\ last.ret = "Ok"
  /\ Len(blocks) = 2
  /\ blocks[2] = last.block

\* C2: add_block on a non-empty chain with a block that fails one of the four
\* validator conditions against the tail returns Err(InvalidBlock) and leaves
\* the block sequence as it was.
C2_InvalidBlockRejected ==
  (AddedTo /\ ~FourConditions(last.block, TailBefore)) =>
    (last.ret = "InvalidBlock" /\ blocks = last.before)

\* C3: add_block on an empty chain returns Err(InvalidChainLength) for every
\* block, well-formed or not, and the chain stays empty.
C3_AddBlockOnEmpty ==
  (last.op = "add_block" /\ last.before = <<>>) =>
    (last.ret = "InvalidChainLength" /\ blocks = <<>>)

C3_Witness ==
  /\ last.op = "add_block"
  /\ last.before = <<>>
  /\ last.block.hash = NOT_A_HASH
  /\ last.ret = "InvalidChainLength"

\* C4: genesis on an empty chain returns Ok and leaves exactly one block: id 0,
\* previous_hash "genesis", data "genesis!", and a mined (nonce, hash): the
\* hash is the digest of the fields and meets the difficulty prefix.
C4_GenesisBlock ==
  (last.op = "genesis" /\ last.before = <<>>) =>
    /\ last.ret = "Ok"
    /\ Len(blocks) = 1
    /\ blocks[1].id = 0
    /\ blocks[1].previous_hash = GENESIS
    /\ blocks[1].data = GENESIS_DATA
    /\ DigestOk(blocks[1])
    /\ PrefixOk(blocks[1])

C4_Witness ==
  /\ last.op = "genesis"
  /\ last.before = <<>>
  /\ last.ret = "Ok"
  /\ Len(blocks) = 1
  /\ blocks[1].nonce > 0

\* C5: genesis on a chain that already holds blocks, however they got there,
\* returns Err(InvalidChainLength) and leaves the block sequence unchanged.
C5_GenesisOnNonEmpty ==
  (last.op = "genesis" /\ last.before # <<>>) =>
    (last.ret = "InvalidChainLength" /\ blocks = last.before)

C5_Witness ==
  /\ last.op = "genesis"
  /\ last.ret = "InvalidChainLength"
  /\ \E i \in 1..Len(last.before) : last.before[i].hash = NOT_A_HASH
  /\ blocks = last.before

\* C6: genesis returns Ok at most once: it returns Ok only on an empty chain,
\* and no step of genesis, add_block or choose_chain empties a chain that
\* holds blocks.
C6_GenesisAtMostOnce ==
  [][/\ blocks # <<>> => blocks' # <<>>
     /\ (last'.op = "genesis" /\ last'.ret = "Ok") => blocks = <<>>]_vars

C6_Witness ==
  /\ last.op = "genesis"
  /\ last.ret = "InvalidChainLength"
  /\ Len(last.before) = MaxLen + 1

\* C7: is_block_valid returns true if and only if the hash is the digest of
\* the fields, previous_hash is the previous block's hash, the binary string
\* of the hash starts with the prefix, and id is the previous id plus one.
C7_FourConditions ==
  (verdict # "none" /\ tampered = "none") =>
    (verdict = "true" <=> FourConditions(block, previous_block))

\* C8: changing hash, previous_hash or id of a block that is_block_valid
\* accepted, the rest held fixed, gives a block that is_block_valid rejects.
C8_TamperRejected == tampered # "none" => verdict = "false"

C8_Witness == tampered = "previous_hash" /\ verdict = "false"

\* C9: is_block_valid returns a boolean for every block and previous block: it
\* never panics.
C9_NeverPanics == verdict # "panic"

\* C10: add_block on a non-empty chain with a block whose hash is not valid
\* hex returns Err(InvalidBlock) with the chain unchanged: the hex decoding
\* that would panic is not reached.
C10_BadHexRejected ==
  (AddedTo /\ ~hex_decode(last.block.hash).ok) =>
    (last.ret = "InvalidBlock" /\ blocks = last.before)

C10_Witness ==
  /\ AddedTo
  /\ last.block.hash = NOT_A_HASH
  /\ last.ret = "InvalidBlock"
  /\ TailBefore.id = U64Max

\* C11: is_chain_valid returns false for a chain of 0 or 1 blocks, and
\* otherwise true if and only if is_block_valid accepts every block from the
\* second on against the block immediately before it.
C11_ChainValidPairs ==
  last.op = "is_chain_valid" =>
    /\ Len(blocks) <= 1 => last.ret = "false"
    /\ Len(blocks) >= 2 =>
         (last.ret = "true"
            <=> \A i \in 2..Len(blocks) :
                  is_block_valid(overflow_checks, blocks[i], blocks[i - 1]) = "true")

C11_Witness ==
  /\ last.op = "is_chain_valid"
  /\ Len(blocks) = 3
  /\ last.ret = "true"
  /\ is_block_valid(overflow_checks, blocks[3], blocks[1]) = "false"

\* C12: on a chain built only by new, genesis, add_block and choose_chain
\* (remotes built the same way) is_chain_valid returns true exactly when the
\* chain holds at least two blocks; on the genesis block alone it returns
\* false.
C12_ValidIffTwoBlocks ==
  last.op = "is_chain_valid" =>
    /\ last.ret \in {"true", "false"}
    /\ last.ret = "true" <=> Len(blocks) >= 2

C12_Witness ==
  /\ last.op = "is_chain_valid"
  /\ Len(blocks) = 1
  /\ blocks[1].previous_hash = GENESIS
  /\ last.ret = "false"

\* C19: in every chain built only by new, genesis, add_block and
\* choose_chain the block at position i (counted from 0) has id i.
C19_IdsArePositions ==
  \A i \in 1..Len(blocks) : blocks[i].id = i - 1

C19_Witness ==
  /\ last.op = "add_block"
  /\ last.ret = "InvalidBlock"
  /\ Len(blocks) >= 2
  /\ last.block.id = Len(blocks) + 1
  /\ DigestOk(last.block) /\ PrefixOk(last.block)
  /\ LinkOk(last.block, blocks[Len(blocks)])

\* C20: in every chain built only by new, genesis, add_block and
\* choose_chain every block has hash equal to the digest of its own fields
\* and meeting the difficulty prefix, and every block after the first has
\* previous_hash equal to the hash of the block before it.
C20_BlocksWellFormed ==
  \A i \in 1..Len(blocks) :
    /\ DigestOk(blocks[i])
    /\ PrefixOk(blocks[i])
    /\ i > 1 => LinkOk(blocks[i], blocks[i - 1])

C20_Witness ==
  /\ last.op = "choose_chain"
  /\ last.before # <<>>
  /\ blocks = last.remote
  /\ Len(blocks) = MaxLen + 1
  /\ blocks[1] # last.before[1]

\* C13: when both chains are valid and the remote chain has strictly more
\* blocks, choose_chain leaves the local blocks equal to the remote blocks.
C13_LongerValidRemoteWins ==
  (/\ last.op = "choose_chain"
   /\ LocalValid = "true" /\ RemoteValid = "true"
   /\ Len(last.remote) > Len(last.before))
    => last.ret = "unit" /\ blocks = last.remote

C13_Witness ==
  /\ last.op = "choose_chain"
  /\ LocalValid = "true" /\ RemoteValid = "true"
  /\ Len(last.before) = 2 /\ Len(last.remote) = 3
  /\ last.before # SubSeq(last.remote, 1, 2)
  /\ blocks = last.remote

\* C14: when the remote chain is valid and is_chain_valid is false for the
\* local chain, choose_chain leaves the local blocks equal to the remote
\* blocks whatever the lengths, also when the remote chain is the shorter.
C14_ValidRemoteReplacesInvalidLocal ==
  (/\ last.op = "choose_chain"
   /\ RemoteValid = "true" /\ LocalValid = "false")
    => last.ret = "unit" /\ blocks = last.remote

C14_Witness ==
  /\ last.op = "choose_chain"
  /\ RemoteValid = "true" /\ LocalValid = "false"
  /\ Len(last.remote) < Len(last.before)
  /\ blocks = last.remote

\* C15: choose_chain leaves the local blocks as they were whenever the remote
\* chain is not valid, and whenever both chains are valid and the remote
\* chain is not strictly longer than the local one.
C15_OtherwiseLocalKept ==
  (/\ last.op = "choose_chain"
   /\ \/ RemoteValid # "true"
      \/ /\ LocalValid = "true" /\ RemoteValid = "true"
         /\ Len(last.remote) <= Len(last.before))
    => blocks = last.before

C15_Witness ==
  /\ last.op = "choose_chain"
  /\ LocalValid = "true" /\ RemoteValid = "true"
  /\ Len(last.remote) = Len(last.before)
  /\ last.remote # last.before
  /\ blocks = last.before

\* C16: after choose_chain the local blocks are either exactly the local
\* blocks before the call or exactly the remote blocks, never a mixture, and
\* they are the remote blocks under one of the two replacement conditions
\* only, which exclude each other.
C16_LocalOrRemote ==
  last.op = "choose_chain" =>
    /\ blocks \in {last.before, last.remote}
    /\ blocks # last.before =>
         /\ RemoteValid = "true"
         /\ (LocalValid = "true" /\ Len(last.remote) > Len(last.before))
              # (LocalValid = "false")

C16_Witness ==
  /\ last.op = "choose_chain"
  /\ last.ret = "unit"
  /\ Len(last.before) >= 2
  /\ Len(last.remote) = Len(last.before) + 1
  /\ last.before[1] # last.remote[1]
  /\ blocks = last.remote

\* C17: the nonce and hash mine_hash returns (Block::new stores them next
\* to the inputs it passed) are such that the hash is the digest of the
\* inputs and the nonce, the unpadded binary string of the hash starts with
\* the prefix, and no smaller nonce gives a digest that does.
C17_MinedNonceIsFirst ==
  (last.op = "Block_new" /\ last.ret = "ok") =>
    /\ DigestOk(block)
    /\ PrefixOk(block)
    /\ \A n \in 0..(block.nonce - 1) :
         ~PrefixOk([block EXCEPT !.hash =
                      calculate_hash(block.id, block.timestamp,
                                     block.previous_hash, block.data, n)])

C17_Witness ==
  /\ last.op = "Block_new"
  /\ last.ret = "ok"
  /\ block.nonce >= 2
  /\ block.data = <<>>

\* C18: on a chain that holds blocks, add_block returns Ok for a block made
\* by Block::new with the id after the tail's and the tail's hash, whatever
\* the data, and returns InvalidBlock for a block made by Block::new with a
\* previous_hash other than the tail's hash.
C18_MinedBlockAccepted ==
  (last.op = "add_block" /\ last.before # <<>> /\ DigestOk(last.block)) =>
    /\ (LinkOk(last.block, TailBefore) /\ IdOk(last.block, TailBefore))
         => last.ret = "Ok" /\ blocks = Append(last.before, last.block)
    /\ ~LinkOk(last.block, TailBefore)
         => last.ret = "InvalidBlock" /\ blocks = last.before

C18_Witness ==
  /\ last.op = "add_block"
  /\ last.ret = "Ok"
  /\ last.block.data = GENESIS_DATA
  /\ last.block.nonce > 0
  /\ TailBefore.id = U64Max - 1
  /\ blocks = Append(last.before, last.block)

\* The number of binary digits of the shortest binary form of a byte.
BitLen(byte) ==
  CHOOSE n \in 1..8 : byte < 2 ^ n /\ (n = 1 \/ byte >= 2 ^ (n - 1))

RECURSIVE BinVal(_)
\* The number a string of binary digits stands for.
BinVal(s) ==
  IF s = <<>> THEN 0
  ELSE 2 * BinVal(SubSeq(s, 1, Len(s) - 1)) + (IF s[Len(s)] = "1" THEN 1 ELSE 0)

RECURSIVE BitsBefore(_, _)
\* The number of binary digits the bytes before position i take.
BitsBefore(bytes, i) ==
  IF i = 1 THEN 0 ELSE BitsBefore(bytes, i - 1) + BitLen(bytes[i - 1])

\* The call of binary_string_of returned for the hash it was given.
Rendered == last.op = "binary_string_of" /\ last.ret = "ok"

\* C21: binary_string_of returns, byte after byte in the order of the hex
\* string, the shortest binary form of each decoded byte, with no padding
\* to 8 digits: "ff" gives "11111111", "0f" gives "1111", "03" gives "11",
\* "00" gives "0".
C21_UnpaddedBinary ==
  Rendered =>
    LET bytes == hex_decode(block.hash).bytes
        n == Len(bytes)
    IN /\ Len(binary_string) = BitsBefore(bytes, n + 1)
       /\ \A i \in 1..n :
            LET piece == SubSeq(binary_string, BitsBefore(bytes, i) + 1,
                                BitsBefore(bytes, i + 1))
            IN /\ \A k \in 1..Len(piece) : piece[k] \in {"0", "1"}
               /\ BinVal(piece) = bytes[i]
       /\ block.hash = <<"f", "f">>
            => binary_string = <<"1", "1", "1", "1", "1", "1", "1", "1">>
       /\ block.hash = <<"0", "f">> => binary_string = <<"1", "1", "1", "1">>
       /\ block.hash = <<"0", "3">> => binary_string = <<"1", "1">>
       /\ block.hash = <<"0", "0">> => binary_string = <<"0">>

C21_Witness ==
  /\ Rendered
  /\ block.hash = <<"0", "3", "0", "0", "f", "f">>
  /\ binary_string = <<"1", "1", "0", "1", "1", "1", "1", "1", "1", "1", "1">>

\* The 8 binary digits of a byte, highest first (true big-endian binary).
PaddedBits(byte) ==
  [k \in 1..8 |-> IF (byte \div (2 ^ (8 - k))) % 2 = 1 THEN "1" ELSE "0"]

\* The difficulty rule as it would be on the zero-padded binary expansion.
PaddedOk(hash) ==
  LET d == hex_decode(hash) IN
  /\ d.ok
  /\ starts_with(Concat([i \in 1..Len(d.bytes) |-> PaddedBits(d.bytes[i])]), PREFIX)

\* The difficulty rule of mine_hash and is_block_valid on the string
\* binary_string_of returned.
UnpaddedOk == starts_with(binary_string, PREFIX)

\* C22 as stated: every hash whose zero-padded binary expansion starts with
\* the prefix is accepted by the unpadded rule too.
C22_UnpaddedMorePermissive ==
  Rendered => (PaddedOk(block.hash) => UnpaddedOk)

\* C22 amended: the unpadded rule is the stricter one.  Every hash the
\* unpadded rule accepts has a zero-padded expansion that starts with the
\* prefix, and the padded rule accepts hashes the unpadded rule rejects,
\* such as "3f" and "0003".
C22_UnpaddedStricter ==
  Rendered =>
    /\ UnpaddedOk => PaddedOk(block.hash)
    /\ block.hash \in {<<"3", "f">>, <<"0", "0", "0", "3">>}
         => PaddedOk(block.hash) /\ ~UnpaddedOk

C22_Witness ==
  /\ Rendered
  /\ UnpaddedOk
  /\ PaddedOk(block.hash)
  /\ block.hash = <<"0", "0", "0", "0", "3", "f">>

\* C23: with the prefix "00" a hash of two or more bytes meets the
\* difficulty rule if and only if its hex form begins with four zero digits
\* (its first two bytes are 0x00); a hash that begins "00ff" or "0fff" and a
\* hash of one byte are rejected.
C23_FourZeroDigits ==
  Rendered =>
    /\ Len(block.hash) >= 4
         => (UnpaddedOk <=> SubSeq(block.hash, 1, 4) = <<"0", "0", "0", "0">>)
    /\ Len(block.hash) <= 2 => ~UnpaddedOk
    /\ (/\ Len(block.hash) >= 4
        /\ SubSeq(block.hash, 1, 4) \in {<<"0", "0", "f", "f">>, <<"0", "f", "f", "f">>})
         => ~UnpaddedOk

C23_Witness ==
  /\ Rendered
  /\ Len(block.hash) = 2 * HashBytes
  /\ SubSeq(block.hash, 1, 4) = <<"0", "0", "0", "0">>
  /\ block.hash[2 * HashBytes] = "f"
  /\ UnpaddedOk

\* The lengths of those of the two chains of the last call that were valid.
ValidLengths ==
  (IF LocalValid = "true" THEN {Len(last.before)} ELSE {})
  \cup (IF RemoteValid = "true" THEN {Len(last.remote)} ELSE {})

\* C24: after a choose_chain call in which at least one of the two chains
\* was valid, the local chain is valid and as long as the longest of the
\* chains that were valid; a second call with the same remote chain changes
\* nothing.
C24_LongestValidKept ==
  (last.op = "choose_chain" /\ ValidLengths # {}) =>
    /\ is_chain_valid(overflow_checks, blocks) = "true"
    /\ \A n \in ValidLengths : Len(blocks) >= n
    /\ Len(blocks) \in ValidLengths
    /\ choose_chain_of(overflow_checks, blocks, last.remote).blocks = blocks

\* The block sequences that differ from bs at most in the previous_hash,
\* timestamp, data and nonce of the first block.
FirstVariants(bs) ==
  IF bs = <<>> THEN {bs}
  ELSE {[bs EXCEPT ![1].previous_hash = p, ![1].timestamp = t,
                   ![1].data = d, ![1].nonce = n] :
          p \in {bs[1].previous_hash, NOT_PREVIOUS},
          t \in {bs[1].timestamp, 0},
          d \in {bs[1].data, <<>>},
          n \in {bs[1].nonce, U64Max}}

\* C25: is_chain_valid gives the same verdict for block sequences that
\* differ only in the previous_hash, timestamp, data or nonce of the first
\* block, and choose_chain does with such a remote chain what it does with
\* the remote chain it was given: it returns alike and keeps the local
\* blocks or takes the remote ones alike.
C25_FirstBlockNotValidated ==
  last.op = "choose_chain" =>
    /\ \A local \in FirstVariants(last.before) :
         is_chain_valid(overflow_checks, local) = LocalValid
    /\ \A remote \in FirstVariants(last.remote) :
         LET other == choose_chain_of(overflow_checks, last.before, remote) IN
         /\ is_chain_valid(overflow_checks, remote) = RemoteValid
         /\ other.ret = last.ret
         /\ other.blocks = (IF blocks = last.before THEN last.before ELSE remote)

C25_Witness ==
  /\ last.op = "choose_chain"
  /\ last.before # <<>>
  /\ last.before[1].id = 0
  /\ blocks # last.before
  /\ blocks = last.remote
  /\ blocks[1].id = U64Max - 1
  /\ blocks[1].data # GENESIS_DATA

\* The digest of the arguments of mine_hash with the nonce n meets the prefix.
NonceWorks(n) ==
  PrefixOk([block EXCEPT !.hash =
              calculate_hash(block.id, block.timestamp, block.previous_hash,
                             block.data, n)])

\* A pass examines the digest of the current nonce, and goes on, if it goes
\* on, with the nonce one higher.
PassInOrder ==
  /\ block'.hash = calculate_hash(block.id, block.timestamp,
                                  block.previous_hash, block.data, block.nonce)
  /\ IF last'.ret = "loop" THEN block'.nonce = block.nonce + 1
     ELSE block'.nonce = block.nonce

\* mine_hash has returned the first nonce whose digest meets the prefix.
ReturnedFirst ==
  /\ NonceWorks(block.nonce)
  /\ \A n \in 0..(block.nonce - 1) : ~NonceWorks(n)
  /\ last.block = block

\* C26: mine_hash tries the nonces 0, 1, 2, ... in increasing order, each
\* once; when some nonce of the u64 range gives a digest that meets the
\* prefix the loop ends and returns, at the first such nonce, and tries no
\* larger one.
C26_MiningTerminatesAtFirst ==
  /\ [][last.op = "mine_hash" => PassInOrder]_vars
  /\ [](last.op = "mine_hash" /\ last.ret = "ok" => ReturnedFirst)
  /\ (last.op = "mine_hash" /\ \E n \in 0..U64Max : NonceWorks(n))
       ~> (last.op = "mine_hash" /\ last.ret = "ok")

C26_Witness ==
  /\ last.op = "mine_hash"
  /\ last.ret = "ok"
  /\ block.nonce = 3
  /\ ReturnedFirst

====
